---- MODULE Spec2Model ----
(***************************************************************************)
(* Web generation of the orb weaver (weaveWeb in components/Canvas.tsx and *)
(* the geometric primitives of utils.tsx).                                 *)
(*                                                                         *)
(* Numbers.  The program computes in IEEE doubles; the model computes in   *)
(* exact integers:                                                         *)
(*   - a Vector is [x, y, d] and stands for the point (x/d, y/d); d = 0    *)
(*     is the result of a division by zero (an infinite coordinate, or NaN *)
(*     when the numerator is 0 too);                                       *)
(*   - angles are whole degrees on the grid Angles (the directions whose   *)
(*     slope is 0, 1/2, 1, 2 or vertical), so that cos/sin and atan are    *)
(*     table lookups;                                                      *)
(*   - lengths are fixed-point numbers with MagScale units per pixel.      *)
(***************************************************************************)
EXTENDS Integers, Sequences, FiniteSets, TLC

(***************************************************************************)
(* Bounds of the model                                                     *)
(***************************************************************************)
\* resample attempts that are followed; the loop of the program has no bound
MaxAttempts == 3
\* Math.random() yields a multiple of 1/RandomDen
RandomDen == 4
\* fixed-point units per pixel of a length
MagScale == 10
\* calls of Math.random() by fuzz whose every value is followed; the later
\* calls of a run return the fixed sequence RandomTail
MaxDraws == 6

(***************************************************************************)
(* Arithmetic of JavaScript                                                *)
(***************************************************************************)
Sgn(n) == IF n > 0 THEN 1 ELSE IF n < 0 THEN -1 ELSE 0

Abs(n) == IF n < 0 THEN -n ELSE n

\* a % n of JavaScript: the result has the sign of the dividend
JsMod(a, n) == IF a >= 0 THEN a % n ELSE -((-a) % n)

\* Math.sign of NaN is NaN, which equals nothing, itself included
NaNSign == 2

Infinity == 1000000000

\* Math.sign(num / den); a zero denominator is +0
MathSign(num, den) ==
    IF den = 0
    THEN (IF num = 0 THEN NaNSign ELSE Sgn(num))
    ELSE Sgn(num) * Sgn(den)

SignEq(s1, s2) == s1 # NaNSign /\ s2 # NaNSign /\ s1 = s2

RECURSIVE SqrtSearch(_, _, _)
SqrtSearch(n, lo, hi) ==
    IF lo >= hi THEN lo
    ELSE LET mid == (lo + hi + 1) \div 2
         IN  IF mid * mid <= n THEN SqrtSearch(n, mid, hi)
                               ELSE SqrtSearch(n, lo, mid - 1)

\* Math.sqrt, rounded down to a whole number
Sqrt(n) == SqrtSearch(n, 0, 46340)

(***************************************************************************)
(* Vector and Line (utils.tsx)                                             *)
(***************************************************************************)
Vector(x, y) == [x |-> x, y |-> y, d |-> 1]

Plus(v, u) == [x |-> v.x * u.d + u.x * v.d, y |-> v.y * u.d + u.y * v.d, d |-> v.d * u.d]

ToSpace(v, u) == [x |-> v.x * u.d - u.x * v.d, y |-> v.y * u.d - u.y * v.d, d |-> v.d * u.d]

\* mag() in fixed point
Mag(v) ==
    IF v.d = 0 THEN Infinity
    ELSE Sqrt((MagScale * MagScale * (v.x * v.x + v.y * v.y)) \div (v.d * v.d))

\* the grid of directions: angle in degrees |-> a vector of that direction
Angles == {0, 27, 45, 63, 90, 117, 135, 153, 180, 207, 225, 243, 270, 297, 315, 333}

RECURSIVE Rotate90(_, _)
Rotate90(v, n) == IF n = 0 THEN v ELSE Rotate90(Vector(-v.y, v.x), n - 1)

\* new Vector(Math.cos(degToRad(a)), Math.sin(degToRad(a))), up to its length
UnitVector(a) ==
    LET r == a % 90
        base == CASE r = 0  -> Vector(2, 0)
                  [] r = 27 -> Vector(2, 1)
                  [] r = 45 -> Vector(2, 2)
                  [] r = 63 -> Vector(1, 2)
    IN  Rotate90(base, a \div 90)

NaNAngle == -1000

\* radToDeg(Math.atan(y / x)) for a slope of the grid
AtanDeg(y, x) ==
    IF x = 0
    THEN (IF y = 0 THEN NaNAngle ELSE 90 * Sgn(y))
    ELSE LET ay == Abs(y)
             ax == Abs(x)
             deg == CASE ay = 0      -> 0
                      [] 2 * ay = ax -> 27
                      [] ay = ax     -> 45
                      [] ay = 2 * ax -> 63
         IN  Sgn(x) * Sgn(y) * deg

\* Vector.getAngle(origin), in degrees
GetAngle(v, origin) ==
    LET t == ToSpace(v, origin)
        tx == t.x * Sgn(t.d)
        ty == t.y * Sgn(t.d)
        baseAngle == AtanDeg(ty, tx)
    IN  IF t.d = 0 \/ baseAngle = NaNAngle THEN NaNAngle
        ELSE IF tx < 0 THEN baseAngle + 180
        ELSE IF ty < 0 THEN baseAngle + 360
        ELSE baseAngle

Line(start, end) == [start |-> start, end |-> end]

\* Line.intersect for two lines with whole end points: both quotients of the
\* program have the denominator aA * bB - aB * bA
Intersect(a, b) ==
    LET aA == a.end.y - a.start.y
        aB == a.end.x - a.start.x
        aC == a.end.x * a.start.y - a.end.y * a.start.x
        bA == b.end.y - b.start.y
        bB == b.end.x - b.start.x
        bC == b.end.x * b.start.y - b.end.y * b.start.x
    IN  [x |-> aB * bC - bB * aC,
         y |-> -(bA * aC - aA * bC),
         d |-> aA * bB - aB * bA]

\* new Radius(start, end, angle); every spoke starts at the hub
Radius(id, start, end, angle) ==
    [id |-> id, end |-> end, length |-> Mag(ToSpace(end, start)), angle |-> angle,
     auxPoints |-> <<>>, capPoints |-> <<>>]

(***************************************************************************)
(* Array helpers                                                           *)
(***************************************************************************)
\* array.splice(index, 0, item), index counted from 0
Splice(arr, index, item) ==
    LET at == IF index > Len(arr) THEN Len(arr) ELSE index
    IN  SubSeq(arr, 1, at) \o <<item>> \o SubSeq(arr, at + 1, Len(arr))

\* sortByAngle: Math.sign(r1.angle - r2.angle)
SortByAngleCmp(r1, r2) == Sgn(r1.angle - r2.angle)

RECURSIVE InsertSorted(_, _)
InsertSorted(sorted, r) ==
    IF sorted = <<>> THEN <<r>>
    ELSE IF SortByAngleCmp(sorted[Len(sorted)], r) <= 0 THEN Append(sorted, r)
    ELSE Append(InsertSorted(SubSeq(sorted, 1, Len(sorted) - 1), r), sorted[Len(sorted)])

\* spokes.sort(sortByAngle); Array.prototype.sort is stable
RECURSIVE SortByAngle(_)
SortByAngle(arr) ==
    IF arr = <<>> THEN <<>>
    ELSE InsertSorted(SortByAngle(SubSeq(arr, 1, Len(arr) - 1)), arr[Len(arr)])

(***************************************************************************)
(* The inputs of a run: an outcome of the frame builder (Canvas.tsx        *)
(* 636-704: the three origins, the hub and the three frame threads, here   *)
(* for a 40 x 36 and for a 24 x 40 canvas) and the parameters              *)
(* maxRadiusAngle, minRadiusAngleFactor and auxRings.                      *)
(***************************************************************************)
WideFrame ==
    [originA |-> Vector(0, 2), originB |-> Vector(40, 4), originC |-> Vector(22, 36),
     middle |-> Vector(22, 13),
     frameA |-> Line(Vector(10, 17), Vector(15, 3)),
     frameB |-> Line(Vector(34, 15), Vector(28, 3)),
     frameC |-> Line(Vector(13, 23), Vector(29, 23))]

TallFrame ==
    [originA |-> Vector(0, 1), originB |-> Vector(24, 7), originC |-> Vector(12, 40),
     middle |-> Vector(12, 13),
     frameA |-> Line(Vector(3, 11), Vector(10, 3)),
     frameB |-> Line(Vector(21, 14), Vector(17, 5)),
     frameC |-> Line(Vector(6, 21), Vector(19, 22))]

Configs ==
    { [frame |-> WideFrame, maxRadiusAngle |-> 360, factor |-> [num |-> 1, den |-> 4],
       auxRings |-> 3, capCapacity |-> 2],
      [frame |-> TallFrame, maxRadiusAngle |-> 360, factor |-> [num |-> 1, den |-> 4],
       auxRings |-> 14, capCapacity |-> 2],
      [frame |-> WideFrame, maxRadiusAngle |-> 120, factor |-> [num |-> 1, den |-> 4],
       auxRings |-> 2, capCapacity |-> 2],
      [frame |-> WideFrame, maxRadiusAngle |-> 90,  factor |-> [num |-> 1, den |-> 5],
       auxRings |-> 1, capCapacity |-> 2],
      [frame |-> WideFrame, maxRadiusAngle |-> 120, factor |-> [num |-> 3, den |-> 5],
       auxRings |-> 1, capCapacity |-> 2],
      [frame |-> TallFrame, maxRadiusAngle |-> 80,  factor |-> [num |-> 1, den |-> 3],
       auxRings |-> 1, capCapacity |-> 2] }

VARIABLES
    frame,                 \* the origins, the hub and the frame threads
    maxRadiusAngle,        \* maximum gap in degrees between two radii
    minRadiusAngleFactor,  \* [num, den]: the clearance factor num / den
    auxRings,              \* number of rings of the auxiliary spiral
    capCapacity,           \* capture rings between two arms of the auxiliary spiral
    pc,                    \* position of weaveWeb
    spokes,                \* the radial threads, in list order
    radii,                 \* ids of the inserted spokes, in insertion order
    hasSpace,
    i,
    startingRadius,        \* id of the spoke the walk started at
    angleDifference,
    newAngle,
    attempts,              \* iterations of the resample loop for this gap
    border,                \* index into borderThreads, from 0
    minDist,
    roundoff,              \* rounding of the six intersections of the border loop
    examined,              \* history: pairs passed since the last insertion
    auxiliarySpiral,       \* the segments of the auxiliary spiral
    shortestSpokeLength,
    startSpokeIndex,
    auxDir,
    auxIndex,
    auxI,
    pointOnSpiral,         \* in auxiliary units, see AuxUnits
    prevPoint,
    terminalSpoke,         \* id of the terminal spoke
    terminalSpokeIndex,
    randomCalls,           \* calls of Math.random() made by fuzz in this run
    captureSpiral,         \* the segments of the capture spiral
    ringEnds,              \* queue of the points where the lanes of a ring ended
    currSpoke,             \* id of the spoke the capture walk stands on
    currRing,
    capCount,
    prevCapPoint,
    spokeCounter,
    capI,                  \* the counter i of the walk over the spokes
    woven,                 \* the threads handed to weaveLines, in order
    previous,              \* the threads generated by the weave before this one
    thisLine,              \* the Line a method of utils.tsx is called on
    otherLine,             \* the argument of intersect
    atPosition,            \* the argument of pointAt, in units of 1 / PositionDen
    result,                \* the Vector the call returned
    called,                \* the method called last
    playing,               \* the state playing of the component
    display,               \* the state display
    hover,                 \* the state hover
    toWeave,               \* the groups of lines weaveWeb has yet to hand to weaveLines
    currentLines,          \* the lines of the call of weaveLines in progress
    spins,                 \* for each of them, the locals of its spinLine
    oscillators,           \* the memoized OscStates
    bridgeLength           \* the length of the line that bridge holds after shuffle(axes)

placementVars == <<pc, spokes, radii, hasSpace, i, startingRadius, angleDifference,
                   newAngle, attempts, border, minDist, roundoff, examined>>

paramVars == <<frame, maxRadiusAngle, minRadiusAngleFactor, auxRings, capCapacity>>

auxVars == <<auxiliarySpiral, shortestSpokeLength, startSpokeIndex, auxDir, auxIndex, auxI,
             pointOnSpiral, prevPoint, terminalSpoke, terminalSpokeIndex>>

capVars == <<captureSpiral, ringEnds, currSpoke, currRing, capCount, prevCapPoint,
             spokeCounter, capI>>

weaveVars == <<woven, previous>>

geomVars == <<thisLine, otherLine, atPosition, result, called>>

uiVars == <<playing, display, hover>>

spinVars == <<toWeave, currentLines, spins, oscillators, bridgeLength>>

vars == <<paramVars, placementVars, auxVars, randomCalls, capVars, weaveVars, geomVars,
          uiVars, spinVars>>

Middle == frame.middle

\* bridge, anchorA, anchorB: the sides of the triangle
Bridge == Line(frame.originA, frame.originB)
AnchorA == Line(frame.originB, frame.originC)
AnchorB == Line(frame.originA, frame.originC)

BorderThreads == <<Bridge, AnchorA, AnchorB, frame.frameA, frame.frameB, frame.frameC>>

\* the three branches, each ending on its frame thread
SeedSpokes ==
    <<Radius(1, Middle, Intersect(Line(Middle, frame.originA), frame.frameA),
             GetAngle(frame.originA, Middle)),
      Radius(2, Middle, Intersect(Line(Middle, frame.originB), frame.frameB),
             GetAngle(frame.originB, Middle)),
      Radius(3, Middle, Intersect(Line(Middle, frame.originC), frame.frameC),
             GetAngle(frame.originC, Middle))>>

NoDist == -1
NoAngle == -1
NoBorder == -1
NoIndex == -1
NoPoint == [spoke |-> 0, at |-> 0]

(***************************************************************************)
(* Spoke placement (Canvas.tsx 739-805)                                    *)
(***************************************************************************)
\* spokes[index] for an index counted from 0
At(arr, index) == arr[index + 1]

CurrRadius == At(spokes, JsMod(i, Len(spokes)))
NextRadius == At(spokes, JsMod(i + 1, Len(spokes)))

\* the difference without the wrap through 0: negative for the closing pair
AngleDifferenceNoWrap(curr, next) == next.angle - curr.angle

\* the difference without the reduction modulo 360
AngleDifferenceNoModulo(curr, next) == next.angle - curr.angle + 360

\* (nextRadius.angle - currRadius.angle + 360) % 360
AngleDifference(curr, next) == JsMod(next.angle - curr.angle + 360, 360)

\* rand(min, max): a grid angle in [min, max)
Rand(min, max) == {a \in min .. (max - 1) : (a % 360) \in Angles}

AngleCurrNew(angle) == JsMod(angle - GetAngle(CurrRadius.end, Middle) + 360, 360)
AngleNextNew(angle) == JsMod(GetAngle(NextRadius.end, Middle) - angle + 360, 360)

\* the condition of the resample loop: x < angleDifference * minRadiusAngleFactor
BelowClearance(x) == x * minRadiusAngleFactor.den < angleDifference * minRadiusAngleFactor.num

TooClose(angle) == BelowClearance(AngleCurrNew(angle)) \/ BelowClearance(AngleNextNew(angle))

\* Math.sign of a coordinate difference.  When the ray is parallel to an axis
\* the difference is 0 in exact arithmetic and the sign of the double is
\* decided by the rounding of the intersection: rounding is 0, or 1 for a
\* double that is not zero (it is compared with the sign 0 of the ray, so -1
\* would do what 1 does).
RoundedSign(num, den, onAxis, rounding) ==
    IF onAxis /\ den # 0 THEN rounding ELSE MathSign(num, den)

\* the condition of the border loop for borderThreads[j], j counted from 0
SignTest(unitRadiusLine, j, rounding) ==
    LET intersectPoint == Intersect(unitRadiusLine, At(BorderThreads, j))
        relInter == ToSpace(intersectPoint, Middle)
        relUnitEnd == ToSpace(unitRadiusLine.end, Middle)
    IN  /\ SignEq(RoundedSign(relInter.x, relInter.d, relUnitEnd.x = 0, rounding[j + 1]),
                  MathSign(relUnitEnd.x, relUnitEnd.d))
        /\ SignEq(RoundedSign(relInter.y, relInter.d, relUnitEnd.y = 0, rounding[j + 1]),
                  MathSign(relUnitEnd.y, relUnitEnd.d))

NextDist(unitRadiusLine, j) ==
    Mag(ToSpace(Intersect(unitRadiusLine, At(BorderThreads, j)), Middle))

\* the comparison turned round: the farther border wins
Farther(nextDist, dist) == dist = NoDist \/ nextDist > dist

\* minDist == null || nextDist < minDist
Closer(nextDist, dist) == dist = NoDist \/ nextDist < dist

\* for (let j = 0; j < borderThreads.length; j++) { ... }
RECURSIVE BorderLoop(_, _, _, _)
BorderLoop(unitRadiusLine, rounding, j, sel) ==
    IF j >= Len(BorderThreads) THEN sel
    ELSE LET nextDist == NextDist(unitRadiusLine, j)
         IN  IF SignTest(unitRadiusLine, j, rounding) /\ Closer(nextDist, sel.minDist)
             THEN BorderLoop(unitRadiusLine, rounding, j + 1, [border |-> j, minDist |-> nextDist])
             ELSE BorderLoop(unitRadiusLine, rounding, j + 1, sel)

\* var border = borderThreads[0]; var minDist = null; then the loop
SelectBorder(unitRadiusLine, rounding) ==
    BorderLoop(unitRadiusLine, rounding, 0, [border |-> 0, minDist |-> NoDist])

UnitRadiusLine(angle360) == Line(Middle, Plus(UnitVector(angle360), Middle))

Exact == [j \in 1 .. 6 |-> 0]

Roundings(angle360) ==
    IF angle360 % 90 = 0 THEN [1 .. Len(BorderThreads) -> {0, 1}]
    ELSE {Exact}

\* the index of the current radius instead of the one after it
SpliceIndexOfCurrent == JsMod(i, Len(spokes))

\* where the new radius is spliced in: (i + 1) % spokes.length
SpliceIndex == JsMod(i + 1, Len(spokes))

\* no weave has gone before
NoWeb == [spokes |-> << >>, auxiliarySpiral |-> << >>, captureSpiral |-> << >>]

NoLine == Line(Vector(0, 0), Vector(0, 0))

\* the locals of weaveWeb when it has built the frame and the three seed
\* spokes for the inputs c
SeedWeb(c) ==
    /\ frame = c.frame
    /\ maxRadiusAngle = c.maxRadiusAngle
    /\ minRadiusAngleFactor = c.factor
    /\ auxRings = c.auxRings
    /\ capCapacity = c.capCapacity
    /\ spokes = SortByAngle(SeedSpokes)
    /\ radii = <<>>
    /\ hasSpace = TRUE
    /\ i = 0
    /\ startingRadius = SortByAngle(SeedSpokes)[1].id
    /\ angleDifference = NoAngle
    /\ newAngle = NoAngle
    /\ attempts = 0
    /\ border = NoBorder
    /\ minDist = NoDist
    /\ roundoff = Exact
    /\ examined = 0
    /\ auxiliarySpiral = <<>>
    /\ shortestSpokeLength = 0
    /\ startSpokeIndex = NoIndex
    /\ auxDir = FALSE
    /\ auxIndex = NoIndex
    /\ auxI = NoIndex
    /\ pointOnSpiral = 0
    /\ prevPoint = NoPoint
    /\ terminalSpoke = 0
    /\ terminalSpokeIndex = NoIndex
    /\ randomCalls = 0
    /\ captureSpiral = <<>>
    /\ ringEnds = <<>>
    /\ currSpoke = 0
    /\ currRing = 0
    /\ capCount = 0
    /\ prevCapPoint = NoPoint
    /\ spokeCounter = NoIndex
    /\ capI = 0
    /\ woven = << >>

\* weaveWeb is about to place the spokes
WeaveWebStart(c) == pc = "place" /\ SeedWeb(c)

\* openCanvas has set playing and display and has called weaveWeb
Opened ==
    /\ playing = TRUE
    /\ display = TRUE
    /\ hover = FALSE

\* weaveLines has not been called
NoSpin ==
    /\ toWeave = << >>
    /\ currentLines = << >>
    /\ spins = << >>
    /\ oscillators = << >>
    /\ bridgeLength = 0

\* no method of utils.tsx has been called
NoCall ==
    /\ thisLine = NoLine
    /\ otherLine = NoLine
    /\ atPosition = 0
    /\ result = Vector(0, 0)
    /\ called = "none"

Init ==
    /\ \E c \in Configs : WeaveWebStart(c)
    /\ previous = NoWeb
    /\ NoCall
    /\ Opened
    /\ NoSpin

\* the gap is too wide: draw the first candidate angle
FirstSample ==
    /\ pc = "place" /\ hasSpace
    /\ AngleDifference(CurrRadius, NextRadius) > maxRadiusAngle
    /\ angleDifference' = AngleDifference(CurrRadius, NextRadius)
    /\ \E a \in Rand(CurrRadius.angle, CurrRadius.angle + AngleDifference(CurrRadius, NextRadius)) :
          newAngle' = a
    /\ attempts' = 0
    /\ pc' = "resample"
    /\ UNCHANGED <<paramVars, geomVars, weaveVars, uiVars, spinVars,
                   capVars, randomCalls, auxVars, spokes, radii, hasSpace, i,
                   startingRadius, border, minDist, roundoff, examined>>

\* one iteration of the resample loop
Resample ==
    /\ pc = "resample"
    /\ TooClose(newAngle)
    /\ attempts < MaxAttempts
    /\ \E a \in Rand(CurrRadius.angle, CurrRadius.angle + angleDifference) : newAngle' = a
    /\ attempts' = attempts + 1
    /\ UNCHANGED <<paramVars, geomVars, weaveVars, uiVars, spinVars,
                   capVars, randomCalls, auxVars, pc, spokes, radii, hasSpace, i,
                   startingRadius, angleDifference, border, minDist, roundoff, examined>>

\* the candidate is far enough from both neighbours: find the border thread
\* that its ray meets first
FindBorder ==
    /\ pc = "resample"
    /\ ~TooClose(newAngle)
    /\ \E r \in Roundings(JsMod(newAngle + 360, 360)) :
          LET sel == SelectBorder(UnitRadiusLine(JsMod(newAngle + 360, 360)), r)
          IN  /\ roundoff' = r
              /\ border' = sel.border
              /\ minDist' = sel.minDist
    /\ pc' = "splice"
    /\ UNCHANGED <<paramVars, geomVars, weaveVars, uiVars, spinVars,
                   capVars, randomCalls, auxVars, spokes, radii, hasSpace, i,
                   startingRadius, angleDifference, newAngle, attempts, examined>>

\* the new radius ends on the border found; it is spliced in after the current one
InsertRadius ==
    /\ pc = "splice"
    /\ LET newAngle360 == JsMod(newAngle + 360, 360)
           unitRadiusLine == UnitRadiusLine(newAngle360)
           newRadius == Radius(Len(spokes) + 1, Middle,
                               Intersect(unitRadiusLine, At(BorderThreads, border)),
                               newAngle360)
       IN  /\ spokes' = Splice(spokes, SpliceIndex, newRadius)
           /\ radii' = Append(radii, newRadius.id)
    /\ roundoff' = Exact
    /\ pc' = "place"
    /\ examined' = 0
    /\ UNCHANGED <<paramVars, geomVars, weaveVars, uiVars, spinVars,
                   capVars, randomCalls, auxVars, hasSpace, i, startingRadius,
                   angleDifference, newAngle, attempts, border, minDist>>

\* the test made on the current radius instead of the next one
StartsAtStartingRadius == CurrRadius.id = startingRadius

\* if (nextRadius === startingRadius)
ReachedStartingRadius == NextRadius.id = startingRadius

\* the gap is narrow enough: stop at the closing pair, move on to the next pair
Advance ==
    /\ pc = "place" /\ hasSpace
    /\ AngleDifference(CurrRadius, NextRadius) <= maxRadiusAngle
    /\ angleDifference' = AngleDifference(CurrRadius, NextRadius)
    /\ hasSpace' = IF ReachedStartingRadius THEN FALSE ELSE hasSpace
    /\ i' = i + 1
    /\ examined' = examined + 1
    /\ UNCHANGED <<paramVars, geomVars, weaveVars, uiVars, spinVars,
                   capVars, randomCalls, auxVars, pc, spokes, radii, startingRadius,
                   newAngle, attempts, border, minDist, roundoff>>

(***************************************************************************)
(* The auxiliary spiral (Canvas.tsx 807-856)                               *)
(*                                                                         *)
(* Distances along a spoke are fixed-point numbers with AuxUnits units per *)
(* unit of length: every value the spiral computes (a ring width, the      *)
(* increment, a jittered distance) is then a whole number.                 *)
(***************************************************************************)
\* Math.random() is one of these numerators over RandomDen
RandomValues == {0, RandomDen - 1}

\* what the calls of Math.random() after the first MaxDraws return, by call number
RandomTail(n) == IF n % 2 = 0 THEN RandomDen \div 2 ELSE RandomDen - 1

\* the values the next call of Math.random() may return
RandomSource == IF randomCalls < MaxDraws THEN RandomValues ELSE {RandomTail(randomCalls)}

\* fuzz(num, 1 / factorDen) when Math.random() returned r / RandomDen
Fuzz(num, factorDen, r) == num + (num * (2 * r - RandomDen)) \div (factorDen * RandomDen)

\* the default randomFactor of fuzz is 0.1, the auxiliary spiral passes 0.05
AuxFuzzDen == 20

AuxUnits == auxRings * Len(spokes) * AuxFuzzDen * RandomDen

\* sortByLength, then spokesByLength[0].length
ShortestLength(arr) ==
    CHOOSE l \in {arr[k].length : k \in 1 .. Len(arr)} : \A k \in 1 .. Len(arr) : l <= arr[k].length

\* auxWidth * shortestSpokeLength, auxWidth = 1 / auxRings
AuxStart(shortest) == (shortest * AuxUnits) \div auxRings

\* half the step: the ring width divided among twice the spokes
AuxIncrementHalved(shortest) == (shortest * AuxUnits) \div (2 * auxRings * Len(spokes))

\* a step that grows with the number of segments laid
AuxIncrementGrowing(shortest) ==
    ((shortest * AuxUnits) \div (auxRings * Len(spokes))) * (1 + Len(auxiliarySpiral))

\* (auxWidth / spokes.length) * shortestSpokeLength
AuxIncrement(shortest) == (shortest * AuxUnits) \div (auxRings * Len(spokes))

\* the length of spokes[index] in auxiliary units
SpokeLength(index) == At(spokes, index).length * AuxUnits

\* line.pointAtAbs(position) on the spoke at index
PointAtAbs(arr, index, position) == [spoke |-> At(arr, index).id, at |-> position]

\* the index of the absolute value of the counter
CircularIndexAbs(index, n) == Abs(index) % n

\* ((index % n) + n) % n
CircularIndex(index, n) == JsMod(JsMod(index, n) + n, n)

\* the list replaced by the item alone
PushReplacing(arr, index, field, item) ==
    [arr EXCEPT ![index + 1][field] = <<item>>]

\* list.push(item)
Push(arr, index, field, item) ==
    [arr EXCEPT ![index + 1][field] = Append(@, item)]

\* the item put at the end of the list
UnshiftAtEnd(arr, index, field, item) ==
    [arr EXCEPT ![index + 1][field] = Append(@, item)]

\* auxPoints.unshift(nextPoint): the item is put in front
Unshift(arr, index, field, item) ==
    [arr EXCEPT ![index + 1][field] = <<item>> \o @]

\* the placement loop has ended: sort the spokes, start the spiral on a random spoke
AuxInit ==
    /\ pc = "place" /\ ~hasSpace
    /\ LET sorted == SortByAngle(spokes)
           shortest == ShortestLength(sorted)
       IN  \E start \in 0 .. (Len(spokes) - 1), dir \in BOOLEAN :
              /\ shortestSpokeLength' = shortest
              /\ startSpokeIndex' = start
              /\ auxDir' = dir
              /\ auxIndex' = start
              /\ pointOnSpiral' = AuxStart(shortest)
              /\ prevPoint' = PointAtAbs(sorted, start, AuxStart(shortest))
              /\ spokes' = Push(sorted, start, "auxPoints", AuxStart(shortest))
              /\ auxI' = start
              /\ terminalSpoke' = At(sorted, start).id
              /\ terminalSpokeIndex' = start
    /\ auxiliarySpiral' = <<>>
    /\ pc' = "auxloop"
    /\ UNCHANGED <<paramVars, geomVars, weaveVars, uiVars, spinVars,
                   capVars, randomCalls, radii, hasSpace, i, startingRadius,
                   angleDifference, newAngle, attempts, border, minDist, roundoff, examined>>

\* the jittered distance as it is
Unclamped(fuzzed, at) == fuzzed

\* if (fuzzedPoint > spokes[auxI].length) fuzzedPoint = spokes[auxI].length
ClampToLength(fuzzed, at) == IF fuzzed > SpokeLength(at) THEN SpokeLength(at) ELSE fuzzed

\* the terminal spoke is never replaced
ReachedEndNever(point, at) == FALSE

\* if (pointOnSpiral >= spokes[auxI].length): the spiral ends on this spoke
ReachedEnd(point, at) == point >= SpokeLength(at)

\* one iteration of while (pointOnSpiral < spokes[auxI].length)
AuxStep ==
    /\ pc = "auxloop"
    /\ pointOnSpiral < SpokeLength(auxI)
    /\ LET index == IF auxDir THEN auxIndex + 1 ELSE auxIndex - 1
           point == pointOnSpiral + AuxIncrement(shortestSpokeLength)
           at == CircularIndex(index, Len(spokes))
       IN  \E r \in RandomSource :
              LET fuzzed == Fuzz(point, AuxFuzzDen, r)
                  fuzzedPoint == ClampToLength(fuzzed, at)
                  nextPoint == PointAtAbs(spokes, at, fuzzedPoint)
              IN  /\ auxIndex' = index
                  /\ pointOnSpiral' = point
                  /\ auxI' = at
                  /\ spokes' = Unshift(spokes, at, "auxPoints", fuzzedPoint)
                  /\ auxiliarySpiral' = Append(auxiliarySpiral, Line(prevPoint, nextPoint))
                  /\ prevPoint' = nextPoint
                  /\ IF ReachedEnd(point, at)
                     THEN /\ terminalSpoke' = At(spokes, at).id
                          /\ terminalSpokeIndex' = at
                     ELSE UNCHANGED <<terminalSpoke, terminalSpokeIndex>>
    /\ randomCalls' = randomCalls + 1
    /\ UNCHANGED <<paramVars, geomVars, weaveVars, uiVars, spinVars,
                   capVars, pc, radii, hasSpace, i, startingRadius, angleDifference,
                   newAngle, attempts, border, minDist, roundoff, examined, shortestSpokeLength,
                   startSpokeIndex, auxDir>>

\* the spiral has reached the end of the spoke it stands on
AuxDone ==
    /\ pc = "auxloop"
    /\ ~(pointOnSpiral < SpokeLength(auxI))
    /\ pc' = "capture"
    /\ UNCHANGED <<paramVars, geomVars, weaveVars, uiVars, spinVars,
                   capVars, randomCalls, auxVars, spokes, radii, hasSpace, i,
                   startingRadius, angleDifference, newAngle, attempts, border, minDist,
                   roundoff, examined>>

(***************************************************************************)
(* The capture spiral (Canvas.tsx 858-930)                                 *)
(*                                                                         *)
(* A point of a spoke is [spoke, at]: the id of the spoke and the distance *)
(* from the hub.  lineValueAt divides that distance by the length of the   *)
(* spoke and pointAt multiplies by it again; the model keeps the distance  *)
(* and leaves both scalings out.  The points of auxPoints are in auxiliary *)
(* units, the points the capture spiral computes are in capture units,     *)
(* CapUnits to the auxiliary unit, so that a share of a zone and its       *)
(* jitter are whole numbers.                                               *)
(***************************************************************************)
\* the default randomFactor of fuzz is 0.1
CapFuzzDen == 10

CapUnits == (capCapacity + 1) * CapFuzzDen * RandomDen

\* the locals of the placement loop, which the spirals leave alone
placementLocals == <<radii, hasSpace, i, startingRadius, angleDifference, newAngle, attempts,
                     border, minDist, roundoff, examined>>

\* the spoke object that a variable refers to
SpokeById(id) == spokes[CHOOSE k \in 1 .. Len(spokes) : spokes[k].id = id]

\* spoke.auxPoints[index]; NoPoint stands for undefined
AuxPointAt(spoke, index) ==
    IF index >= 0 /\ index < Len(spoke.auxPoints)
    THEN [spoke |-> spoke.id, at |-> spoke.auxPoints[index + 1]]
    ELSE NoPoint

\* line.contains(point) for a point given as a distance along a spoke
Contains(spoke, point) ==
    /\ point.spoke = spoke.id
    /\ point.at >= 0
    /\ point.at <= spoke.length * AuxUnits

\* the null that lineValueAt returns for a point off the line
Null == -1

\* line.lineValueAt(point), in auxiliary units
LineValueAt(spoke, point) == IF Contains(spoke, point) THEN point.at ELSE Null

\* if (outPoint && inPoint): null and 0 are falsy
Truthy(value) == value # Null /\ value # 0

\* ((capCapacity - i) * (startAuxZone / (capCapacity + 1))) + startInPoint
StartRingEnd(count, outPoint, inPoint) ==
    (capCapacity - count) * (((outPoint - inPoint) * CapUnits) \div (capCapacity + 1))
        + inPoint * CapUnits

\* fuzz((capCapacity - capCount) * (auxZone / (capCapacity + 1))) + inPoint
PointLocation(count, outPoint, inPoint, r) ==
    Fuzz((capCapacity - count) * (((outPoint - inPoint) * CapUnits) \div (capCapacity + 1)),
         CapFuzzDen, r)
        + inPoint * CapUnits

\* spoke.pointAt(position)
PointAt(spoke, position) == [spoke |-> spoke.id, at |-> position]

\* the direction in which a spoke leaves the hub
Direction(id) == GetAngle(SpokeById(id).end, Middle)

\* two points of spokes are one point of the plane
SamePoint(p, q) ==
    /\ p.at = q.at
    /\ (p.at = 0 \/ Direction(p.spoke) = Direction(q.spoke))

\* every segment is kept
KeepAlways(prev, capPoint) == TRUE

\* capSegment.length !== 0
KeepSegment(prev, capPoint) == ~SamePoint(prev, capPoint)

\* the first ring ends, on the zone between the two outermost points of the terminal spoke
CapInit ==
    /\ pc = "capture"
    /\ LET terminal == SpokeById(terminalSpoke)
           startOutBound == AuxPointAt(terminal, 0)
           startInBound == AuxPointAt(terminal, 1)
           startOutPoint == LineValueAt(terminal, startOutBound)
           startInPoint == LineValueAt(terminal, startInBound)
       IN  /\ startOutBound # NoPoint /\ startInBound # NoPoint
           /\ ringEnds' =
                 IF Truthy(startOutPoint) /\ Truthy(startInPoint)
                 THEN [k \in 1 .. capCapacity |->
                          PointAt(terminal, StartRingEnd(k - 1, startOutPoint, startInPoint))]
                 ELSE << >>
    /\ captureSpiral' = << >>
    /\ currSpoke' = terminalSpoke
    /\ currRing' = 0
    /\ pc' = "ring"
    /\ UNCHANGED <<paramVars, geomVars, weaveVars, uiVars, spinVars,
                   auxVars, placementLocals, spokes, randomCalls, capCount,
                   prevCapPoint, spokeCounter, capI>>

\* terminalSpoke.auxPoints[1] is undefined: lineValueAt reads point.x and throws
CapInitThrows ==
    /\ pc = "capture"
    /\ \/ AuxPointAt(SpokeById(terminalSpoke), 0) = NoPoint
       \/ AuxPointAt(SpokeById(terminalSpoke), 1) = NoPoint
    /\ pc' = "thrown"
    /\ UNCHANGED <<paramVars, geomVars, weaveVars, uiVars, spinVars,
                   auxVars, placementLocals, spokes, randomCalls, capVars>>

\* the test asks for one zone more than the ring needs
HasDeeperZone(id, ring) == ring < Len(SpokeById(id).auxPoints) - 2

\* ring < spoke.auxPoints.length - 1: the spoke has a zone at this ring
HasZone(id, ring) == ring < Len(SpokeById(id).auxPoints) - 1

\* for (currRing = 0; currRing < currSpoke.auxPoints.length - 1; currRing++)
RingTest ==
    /\ pc = "ring"
    /\ IF HasZone(currSpoke, currRing)
       THEN /\ capCount' = 0
            /\ pc' = "lane"
       ELSE /\ pc' = "done"
            /\ UNCHANGED capCount
    /\ UNCHANGED <<paramVars, geomVars, weaveVars, uiVars, spinVars,
                   auxVars, placementLocals, spokes, randomCalls, captureSpiral,
                   ringEnds, currSpoke, currRing, prevCapPoint, spokeCounter, capI>>

\* for (capCount = 0; capCount < capCapacity; capCount++): a lane starts from
\* the ring end at the head of the queue
LaneStart ==
    /\ pc = "lane"
    /\ IF capCount < capCapacity
       THEN /\ prevCapPoint' = IF ringEnds = << >> THEN NoPoint ELSE Head(ringEnds)
            /\ ringEnds' = IF ringEnds = << >> THEN << >> ELSE Tail(ringEnds)
            /\ spokeCounter' = terminalSpokeIndex
            /\ capI' = 0
            /\ pc' = "walk"
            /\ UNCHANGED currRing
       ELSE /\ currRing' = currRing + 1
            /\ pc' = "ring"
            /\ UNCHANGED <<prevCapPoint, ringEnds, spokeCounter, capI>>
    /\ UNCHANGED <<paramVars, geomVars, weaveVars, uiVars, spinVars,
                   auxVars, placementLocals, spokes, randomCalls, captureSpiral,
                   currSpoke, capCount>>

\* ((spokeCounter % spokes.length) + spokes.length) % spokes.length
SpokeI == CircularIndex(spokeCounter, Len(spokes))

\* spokes[spokeI], the spoke the walk stands on
WalkSpoke == At(spokes, SpokeI)

\* the walk goes on for a second turn
InSecondTurn == capI <= 2 * Len(spokes)

\* i <= spokes.length, the condition of the walk
InWalk == capI <= Len(spokes)

\* if (i === spokes.length): the walk is back on the spoke it started on
AtSeam == capI = Len(spokes)

\* the bounds of the zone to divide: one zone deeper at the seam
OutBound == AuxPointAt(WalkSpoke, IF AtSeam THEN currRing + 1 ELSE currRing)
InBound == AuxPointAt(WalkSpoke, IF AtSeam THEN currRing + 2 ELSE currRing + 1)

\* if (currRing >= currSpoke.auxPoints.length - 1) break
NoZone == currRing >= Len(WalkSpoke.auxPoints) - 1

\* the counter moved the way the auxiliary spiral moved
StepWithSpiral(counter) == IF auxDir THEN counter + 1 ELSE counter - 1

\* auxDir === true ? spokeCounter-- : spokeCounter++
StepCounter(counter) == IF auxDir THEN counter - 1 ELSE counter + 1

\* the queue after the seam: the point is put in front of it
EnqueueInFront(queue, point) == <<point>> \o queue

\* ringEnds.push(capPoint)
Enqueue(queue, point) == Append(queue, point)

\* one iteration of for (i = 0; i <= spokes.length; i++): a capture point on
\* the spoke the walk stands on, and the segment that leads to it
WalkStep ==
    /\ pc = "walk"
    /\ InWalk
    /\ ~NoZone
    /\ OutBound # NoPoint /\ InBound # NoPoint
    /\ LET outPoint == LineValueAt(WalkSpoke, OutBound)
           inPoint == LineValueAt(WalkSpoke, InBound)
       IN  IF Truthy(outPoint) /\ Truthy(inPoint)
           THEN \E r \in RandomSource :
                   LET capPoint == PointAt(WalkSpoke, PointLocation(capCount, outPoint, inPoint, r))
                   IN  /\ spokes' = Push(spokes, SpokeI, "capPoints", capPoint)
                       /\ captureSpiral' =
                             IF prevCapPoint # NoPoint /\ KeepSegment(prevCapPoint, capPoint)
                             THEN Append(captureSpiral, Line(prevCapPoint, capPoint))
                             ELSE captureSpiral
                       /\ IF AtSeam
                          THEN /\ ringEnds' = Enqueue(ringEnds, capPoint)
                               /\ prevCapPoint' = NoPoint
                          ELSE /\ prevCapPoint' = capPoint
                               /\ UNCHANGED ringEnds
                       /\ randomCalls' = randomCalls + 1
           ELSE UNCHANGED <<spokes, captureSpiral, ringEnds, prevCapPoint, randomCalls>>
    /\ currSpoke' = WalkSpoke.id
    /\ spokeCounter' = StepCounter(spokeCounter)
    /\ capI' = capI + 1
    /\ UNCHANGED <<paramVars, geomVars, weaveVars, uiVars, spinVars,
                   auxVars, placementLocals, pc, currRing, capCount>>

\* the spoke the walk stands on has no zone at this ring: the lane ends here
WalkBreak ==
    /\ pc = "walk"
    /\ InWalk
    /\ NoZone
    /\ currSpoke' = WalkSpoke.id
    /\ capCount' = capCount + 1
    /\ pc' = "lane"
    /\ UNCHANGED <<paramVars, geomVars, weaveVars, uiVars, spinVars,
                   auxVars, placementLocals, spokes, randomCalls, captureSpiral,
                   ringEnds, currRing, prevCapPoint, spokeCounter, capI>>

\* at the seam auxPoints[currRing + 2] is undefined: lineValueAt throws
WalkThrows ==
    /\ pc = "walk"
    /\ InWalk
    /\ ~NoZone
    /\ (OutBound = NoPoint \/ InBound = NoPoint)
    /\ currSpoke' = WalkSpoke.id
    /\ pc' = "thrown"
    /\ UNCHANGED <<paramVars, geomVars, weaveVars, uiVars, spinVars,
                   auxVars, placementLocals, spokes, randomCalls, captureSpiral,
                   ringEnds, currRing, capCount, prevCapPoint, spokeCounter, capI>>

\* the walk has visited every spoke and the first one again: the lane ends
WalkEnd ==
    /\ pc = "walk"
    /\ ~InWalk
    /\ capCount' = capCount + 1
    /\ pc' = "lane"
    /\ UNCHANGED <<paramVars, geomVars, weaveVars, uiVars, spinVars,
                   auxVars, placementLocals, spokes, randomCalls, captureSpiral,
                   ringEnds, currSpoke, currRing, prevCapPoint, spokeCounter, capI>>

(***************************************************************************)
(* Rendering (Canvas.tsx 932-979)                                          *)
(*                                                                         *)
(* weaveWeb hands the threads to weaveLines one at a time and waits for    *)
(* each.  woven lists the kinds of the threads handed over; the direction  *)
(* in which a thread is drawn and the shuffled order of the radii are left *)
(* out.                                                                    *)
(***************************************************************************)
\* the threads woven first: the sides of the triangle, the branches, the frame
FrameThreads ==
    <<"bridge", "branchA", "branchB", "branchC", "anchorA", "anchorB",
      "frameA", "frameB", "frameC">>

\* weaveLines is called once for every element of the list
WeaveEach(list, kind) == [k \in 1 .. Len(list) |-> kind]

\* rendering starts although lineValueAt has thrown
GeneratedOrThrown == pc \in {"done", "thrown"}

\* the statements that generate the threads have all completed
Generated == pc = "done"

\* await weaveLines([drawBridge]) ... await weaveLines([frameC])
WeaveFrame ==
    /\ Generated
    /\ woven' = FrameThreads
    /\ pc' = "weaveRadii"
    /\ UNCHANGED <<paramVars, geomVars, previous, auxVars, placementLocals, spokes, randomCalls,
                   capVars, uiVars, spinVars>>

\* for (let i = 0; i < radii.length; i++) await weaveLines([randRadius])
WeaveRadii ==
    /\ pc = "weaveRadii"
    /\ woven' = woven \o WeaveEach(radii, "radius")
    /\ pc' = "weaveAuxiliary"
    /\ UNCHANGED <<paramVars, geomVars, previous, auxVars, placementLocals, spokes, randomCalls,
                   capVars, uiVars, spinVars>>

\* for (let i = 0; i < auxiliarySpiral.length; i++) await weaveLines([auxiliarySpiral[i]])
WeaveAuxiliary ==
    /\ pc = "weaveAuxiliary"
    /\ woven' = woven \o WeaveEach(auxiliarySpiral, "auxiliary")
    /\ pc' = "weaveCapture"
    /\ UNCHANGED <<paramVars, geomVars, previous, auxVars, placementLocals, spokes, randomCalls,
                   capVars, uiVars, spinVars>>

\* the loop over captureSpiral, then Tone.Transport.stop() and setPlaying(false)
WeaveCapture ==
    /\ pc = "weaveCapture"
    /\ woven' = woven \o WeaveEach(captureSpiral, "capture")
    /\ pc' = "finished"
    /\ playing' = FALSE
    /\ UNCHANGED <<paramVars, geomVars, previous, auxVars, placementLocals, spokes, randomCalls,
                   capVars, display, hover, spinVars>>

Next ==
    \/ FirstSample
    \/ Resample
    \/ FindBorder
    \/ InsertRadius
    \/ Advance
    \/ AuxInit
    \/ AuxStep
    \/ AuxDone
    \/ CapInit
    \/ CapInitThrows
    \/ RingTest
    \/ LaneStart
    \/ WalkStep
    \/ WalkBreak
    \/ WalkThrows
    \/ WalkEnd
    \/ WeaveFrame
    \/ WeaveRadii
    \/ WeaveAuxiliary
    \/ WeaveCapture

Spec == Init /\ [][Next]_vars

(***************************************************************************)
(* Weaving again (Canvas.tsx 983-1007)                                     *)
(*                                                                         *)
(* When a weave has finished the user can click on the canvas, reset it    *)
(* and press the weave button again: openCanvas calls weaveWeb again, in   *)
(* the same window and with the same parameters.  previous keeps what the  *)
(* weave before generated.                                                 *)
(***************************************************************************)
\* the threads the weave in progress has generated
Web == [spokes |-> spokes, auxiliarySpiral |-> auxiliarySpiral, captureSpiral |-> captureSpiral]

\* the inputs of the weave that is repeated: three spokes, two rings
RepeatedConfig ==
    [frame |-> WideFrame, maxRadiusAngle |-> 360, factor |-> [num |-> 1, den |-> 4],
     auxRings |-> 2, capCapacity |-> 2]

RerunInit ==
    /\ WeaveWebStart(RepeatedConfig)
    /\ previous = NoWeb
    /\ NoCall
    /\ Opened
    /\ NoSpin

\* the weave button is rendered by anything
WeaveButtonAlways == TRUE

\* {!display && !playing && ... <Button onClick={openCanvas}>weave</Button>}
WeaveButton == ~display /\ ~playing

\* {hover && display && !playing && ... <Button>reset?</Button>}
ResetButton == hover /\ display /\ ~playing

\* a click on the div round the canvas.  The div has an area to click on only
\* while its canvas or its reset button is displayed, which is while display
\* is set; its handler toggles hover if (!playing).
ClickCanvas ==
    /\ display
    /\ ~playing
    /\ hover' = ~hover
    /\ UNCHANGED <<paramVars, geomVars, weaveVars, placementVars, auxVars, randomCalls,
                   capVars, playing, display, spinVars>>

\* a click on the reset button: setDisplay(false); setHover(false).  The
\* handler of the div round it runs next and sets hover to !hover, false.
ClickReset ==
    /\ ResetButton
    /\ display' = FALSE
    /\ hover' = FALSE
    /\ UNCHANGED <<paramVars, geomVars, weaveVars, placementVars, auxVars, randomCalls,
                   capVars, playing, spinVars>>

\* a click on the weave button: openCanvas sets playing and display and calls
\* weaveWeb, which starts again from the frame and the seed spokes.  The
\* model follows two weaves.
WeaveAgain ==
    /\ WeaveButton
    /\ previous = NoWeb
    /\ playing' = TRUE
    /\ display' = TRUE
    /\ previous' = Web
    /\ pc' = "place"
    /\ spokes' = SortByAngle(SeedSpokes)
    /\ radii' = <<>>
    /\ hasSpace' = TRUE
    /\ i' = 0
    /\ startingRadius' = SortByAngle(SeedSpokes)[1].id
    /\ angleDifference' = NoAngle
    /\ newAngle' = NoAngle
    /\ attempts' = 0
    /\ border' = NoBorder
    /\ minDist' = NoDist
    /\ roundoff' = Exact
    /\ examined' = 0
    /\ auxiliarySpiral' = <<>>
    /\ shortestSpokeLength' = 0
    /\ startSpokeIndex' = NoIndex
    /\ auxDir' = FALSE
    /\ auxIndex' = NoIndex
    /\ auxI' = NoIndex
    /\ pointOnSpiral' = 0
    /\ prevPoint' = NoPoint
    /\ terminalSpoke' = 0
    /\ terminalSpokeIndex' = NoIndex
    /\ randomCalls' = 0
    /\ captureSpiral' = <<>>
    /\ ringEnds' = <<>>
    /\ currSpoke' = 0
    /\ currRing' = 0
    /\ capCount' = 0
    /\ prevCapPoint' = NoPoint
    /\ spokeCounter' = NoIndex
    /\ capI' = 0
    /\ woven' = << >>
    /\ UNCHANGED <<paramVars, geomVars, hover, spinVars>>

\* the steps of a weave with these inputs (no spoke is inserted and a spoke
\* without a second auxiliary point ends every lane), and the next weave
RerunNext ==
    \/ Advance
    \/ AuxInit
    \/ AuxStep
    \/ AuxDone
    \/ CapInit
    \/ RingTest
    \/ LaneStart
    \/ WalkStep
    \/ WalkBreak
    \/ WeaveFrame
    \/ WeaveRadii
    \/ WeaveAuxiliary
    \/ WeaveCapture
    \/ ClickCanvas
    \/ ClickReset
    \/ WeaveAgain

RerunSpec == RerunInit /\ [][RerunNext]_vars

(***************************************************************************)
(* Spoke placement on its own, with a sampler that is fair                 *)
(* (Canvas.tsx 744-805)                                                    *)
(*                                                                         *)
(* The resample loop counts nothing: after MaxAttempts rejections it goes  *)
(* on drawing.  The loops keep running (weak fairness of every step), and  *)
(* a sampler that can return an angle far enough from both neighbours      *)
(* again and again eventually returns one (strong fairness of the draw     *)
(* that ends the resample loop).                                           *)
(***************************************************************************)
\* an iteration of the resample loop after the rejections that are counted
ResampleOn ==
    /\ pc = "resample"
    /\ TooClose(newAngle)
    /\ attempts = MaxAttempts
    /\ \E a \in Rand(CurrRadius.angle, CurrRadius.angle + angleDifference) : newAngle' = a
    /\ UNCHANGED <<paramVars, geomVars, weaveVars, uiVars, spinVars,
                   capVars, randomCalls, auxVars, pc, spokes, radii, hasSpace, i,
                   startingRadius, angleDifference, attempts, border, minDist, roundoff,
                   examined>>

PlacementNext ==
    \/ FirstSample
    \/ Resample
    \/ ResampleOn
    \/ FindBorder
    \/ InsertRadius
    \/ Advance

\* the draw of the resample loop returns an angle that ends the loop
AdmissibleDraw == (Resample \/ ResampleOn) /\ ~TooClose(newAngle')

\* the steps of FindBorder and of InsertRadius, told by the position they
\* leave and the position they reach
FindBorderStep == pc = "resample" /\ ~TooClose(newAngle) /\ pc' = "splice"
InsertRadiusStep == pc = "splice" /\ pc' = "place"

PlacementSpec ==
    /\ Init
    /\ [][PlacementNext]_vars
    /\ WF_vars(FirstSample)
    /\ WF_vars(Advance)
    /\ WF_pc(FindBorderStep)
    /\ WF_pc(InsertRadiusStep)
    /\ SF_vars(AdmissibleDraw)

(***************************************************************************)
(* A weave from the press of the weave button to its end                   *)
(* (Canvas.tsx 613-987)                                                    *)
(*                                                                         *)
(* openCanvas sets playing and calls weaveWeb, an async function that      *)
(* nothing awaits and nothing catches.  weaveWeb runs to its end or to     *)
(* the first exception: JavaScript keeps executing it (weak fairness of    *)
(* its steps), and setPlaying(false), its last statement, is reached only  *)
(* when no statement before it has thrown.  The frames of these weaves     *)
(* need no radius between the three frame spokes.                          *)
(***************************************************************************)
FinishConfigs ==
    { [frame |-> WideFrame, maxRadiusAngle |-> 360, factor |-> [num |-> 1, den |-> 4],
       auxRings |-> 3, capCapacity |-> 2],
      [frame |-> TallFrame, maxRadiusAngle |-> 360, factor |-> [num |-> 1, den |-> 4],
       auxRings |-> 14, capCapacity |-> 2],
      [frame |-> WideFrame, maxRadiusAngle |-> 360, factor |-> [num |-> 1, den |-> 4],
       auxRings |-> 1, capCapacity |-> 2] }

FinishInit ==
    /\ \E c \in FinishConfigs : WeaveWebStart(c)
    /\ previous = NoWeb
    /\ NoCall
    /\ Opened
    /\ NoSpin

FinishNext ==
    \/ Advance
    \/ AuxInit
    \/ AuxStep
    \/ AuxDone
    \/ CapInit
    \/ CapInitThrows
    \/ RingTest
    \/ LaneStart
    \/ WalkStep
    \/ WalkBreak
    \/ WalkThrows
    \/ WalkEnd
    \/ WeaveFrame
    \/ WeaveRadii
    \/ WeaveAuxiliary
    \/ WeaveCapture

FinishSpec == FinishInit /\ [][FinishNext]_vars /\ WF_vars(FinishNext)

(***************************************************************************)
(* Calls of the methods of Line (utils.tsx 131-187)                        *)
(*                                                                         *)
(* The program has two precisions: the precision of a double, in which a   *)
(* distance is computed, and the 0.00001 to which round(num, 5) rounds     *)
(* before contains compares.  The model keeps both: a distance is a whole  *)
(* number of units (MagScale to the pixel, see Mag) and round rounds to    *)
(* the nearest multiple of RoundUnit units.                                *)
(***************************************************************************)
\* units of a distance in the 0.00001 that round(num, 5) rounds to
RoundUnit == 4

\* the positions pointAt is called with are the multiples of 1 / PositionDen
PositionDen == 4

\* the end points of the lines are the whole points of a square of this side
MaxCoordinate == 3

\* round(num, 5) of a distance: Math.round rounds a half up
Round(num) == ((2 * num + RoundUnit) \div (2 * RoundUnit)) * RoundUnit

\* a.distanceTo(b)
DistanceTo(a, b) == Mag(ToSpace(b, a))

\* line.length, set by the constructor
Length(l) == Mag(ToSpace(l.end, l.start))

\* v.scale(num / den)
Scale(v, num, den) == [x |-> v.x * num, y |-> v.y * num, d |-> v.d * den]

\* line.pointAt(pos / PositionDen)
Line_pointAt(l, pos) == Plus(l.start, Scale(ToSpace(l.end, l.start), pos, PositionDen))

\* line.contains(p, extendedLine)
Line_contains(l, p, extendedLine) ==
    LET fromStart == DistanceTo(l.start, p)
        toEnd == DistanceTo(p, l.end)
        withinBounds == \/ Sgn(Round(fromStart)) = 0
                        \/ Sgn(Round(toEnd)) = 0
                        \/ Sgn(fromStart) = Sgn(toEnd)
        equalDistance == Round(fromStart + toEnd) = Round(Length(l))
    IN  IF extendedLine THEN equalDistance ELSE equalDistance /\ withinBounds

\* line.lineValueAt(p): the quotient num / den of two lengths, or null
Line_lineValueAt(l, p) ==
    IF Line_contains(l, p, FALSE)
    THEN [num |-> Length(Line(l.start, p)), den |-> Length(l)]
    ELSE [num |-> Null, den |-> 1]

Coordinates == 0 .. MaxCoordinate

\* the lines with whole end points that are not degenerate
Lines ==
    {Line(Vector(c[1], c[2]), Vector(c[3], c[4])) :
        c \in {q \in Coordinates \X Coordinates \X Coordinates \X Coordinates :
                  q[1] # q[3] \/ q[2] # q[4]}}

\* what the calls of the Line methods leave alone
webVars == <<paramVars, placementVars, auxVars, randomCalls, capVars, weaveVars, uiVars,
            spinVars>>

\* no weave is in progress; a line is there and no method has been called on it
GeomInit ==
    /\ WeaveWebStart(CHOOSE c \in Configs : c.auxRings = 3)
    /\ previous = NoWeb
    /\ thisLine \in Lines
    /\ otherLine = NoLine
    /\ atPosition = 0
    /\ result = Vector(0, 0)
    /\ called = "none"
    /\ Opened
    /\ NoSpin

\* l.pointAt(pos / PositionDen)
PointAtCall ==
    /\ called = "none"
    /\ \E pos \in 0 .. PositionDen :
          /\ atPosition' = pos
          /\ result' = Line_pointAt(thisLine, pos)
    /\ called' = "pointAt"
    /\ UNCHANGED <<webVars, thisLine, otherLine>>

\* a.intersect(b)
IntersectCall ==
    /\ called = "none"
    /\ \E other \in Lines :
          /\ otherLine' = other
          /\ result' = Intersect(thisLine, other)
    /\ called' = "intersect"
    /\ UNCHANGED <<webVars, thisLine, atPosition>>

GeomNext ==
    \/ PointAtCall
    \/ IntersectCall

GeomSpec == GeomInit /\ [][GeomNext]_vars

(***************************************************************************)
(* The spinning of the threads (Canvas.tsx 356-611 and 949-979)            *)
(*                                                                         *)
(* weaveWeb hands one group of lines after the other to weaveLines and     *)
(* awaits each call.  weaveLines calls soundPassive for every line of the  *)
(* group, then spinLine, whose first lineStep runs at once; the later      *)
(* steps run one to an animation frame.  A line is [kind, index, dist]:    *)
(* the list it comes from, its place in that list and its length in the    *)
(* units of Mag.  spins[k] holds the locals of spinLine for the k-th line  *)
(* of the group: t, dist, the values of t drawn at (steps), whether a      *)
(* frame is requested, and how often the promise was resolved.  An         *)
(* OscState is [busy, repeats, notes]: the lines with a repeat scheduled   *)
(* on its synth and the lines whose single note still sounds.  With        *)
(* activeSound = false (319) spinLine itself takes no OscState and         *)
(* releases none.                                                          *)
(***************************************************************************)
\* threads after the frame that a rendering sequence holds at most
MaxThreads == 3

\* const speed = 4
Speed == 4 * MagScale

\* t++
Increment == MagScale

\* the lengths of the threads after the frame: shorter than a step, two whole
\* steps, and more than a fifth of the bridge
ThreadLengths == {3 * MagScale, 8 * MagScale, (19 * MagScale) \div 2}

\* the step made on t without the substep that ends on the end point
NextTNoSubstep(t, dist) == IF t < dist THEN t + Speed ELSE t + Increment

\* the three branches at the end of lineStep.  t + (dist - t) is dist in
\* doubles too: dist - t is exact when dist <= 2 * t, and t is 0 otherwise
\* unless dist <= 2 * speed, where both are small whole multiples.
NextT(t, dist) ==
    IF t + Speed < dist THEN t + Speed
    ELSE IF t < dist THEN t + (dist - t)
    ELSE t + Increment

\* the locals of spinLine(line) before the first lineStep
SpinStart(line) ==
    [t |-> 0, dist |-> line.dist, steps |-> << >>, frame |-> FALSE, resolved |-> 0]

\* lineStep: draw up to t and request a frame, or resolve the promise
LineStep(s) ==
    IF s.t <= s.dist
    THEN [s EXCEPT !.steps = Append(@, s.t), !.t = NextT(s.t, s.dist), !.frame = TRUE]
    ELSE [s EXCEPT !.frame = FALSE, !.resolved = @ + 1]

\* one of the promises has resolved
AnyDone(ss) == ss = << >> \/ \E k \in 1 .. Len(ss) : ss[k].resolved > 0

\* Promise.all(currentLines.map(spinLine)) has resolved
AllDone(ss) == \A k \in 1 .. Len(ss) : ss[k].resolved > 0

\* the OscState that getFreeOsc pushes
NewOscState == [busy |-> TRUE, repeats |-> {}, notes |-> {}]

\* getFreeOsc: the first OscState that is not busy, or a new one at the end
GetFreeOsc(oscs) ==
    LET free == {o \in 1 .. Len(oscs) : ~oscs[o].busy}
    IN  IF free # {}
        THEN [oscillators |-> oscs, index |-> CHOOSE o \in free : \A q \in free : o <= q]
        ELSE [oscillators |-> Append(oscs, NewOscState), index |-> Len(oscs) + 1]

\* line.length / bridge.length > 0.2
RepeatsSound(line) == 5 * line.dist > bridgeLength

\* soundPassive(line): a long line schedules a repeat on the synth, a short
\* one plays a single note and sets busy to false
SoundPassive(oscs, line) ==
    LET got == GetFreeOsc(oscs)
        o == got.index
        id == <<line.kind, line.index>>
    IN  IF RepeatsSound(line)
        THEN [got.oscillators EXCEPT ![o].repeats = @ \cup {id}]
        ELSE [got.oscillators EXCEPT ![o].notes = @ \cup {id}, ![o].busy = FALSE]

\* currentLines.forEach(line => soundPassive(line))
RECURSIVE SoundPassiveEach(_, _)
SoundPassiveEach(oscs, lines) ==
    IF lines = << >> THEN oscs
    ELSE SoundPassiveEach(SoundPassive(oscs, Head(lines)), Tail(lines))

\* a list of threads as lines
ListOf(kind, dists) ==
    [k \in 1 .. Len(dists) |-> [kind |-> kind, index |-> k, dist |-> dists[k]]]

\* the bridge, the branches, the anchors and the frame threads of the frame
FrameLines ==
    LET dists == <<Length(Bridge), SeedSpokes[1].length, SeedSpokes[2].length,
                   SeedSpokes[3].length, Length(AnchorA), Length(AnchorB),
                   Length(frame.frameA), Length(frame.frameB), Length(frame.frameC)>>
    IN  [k \in 1 .. Len(FrameThreads) |->
            [kind |-> FrameThreads[k], index |-> 1, dist |-> dists[k]]]

\* the calls of weaveLines that weaveWeb makes (951-976): one line to a call
RenderingSequence(radiiDists, auxDists, capDists) ==
    LET lines == FrameLines \o ListOf("radius", radiiDists) \o ListOf("auxiliary", auxDists)
                    \o ListOf("capture", capDists)
    IN  [k \in 1 .. Len(lines) |-> <<lines[k]>>]

\* the calls that the first weaveWeb made (utils.tsx 895-896): one line, then
\* two lines at once
EarlierSequence(dists) ==
    <<ListOf("bridge", <<dists[1]>>),
      <<[kind |-> "branchA", index |-> 1, dist |-> dists[2]],
        [kind |-> "branchB", index |-> 1, dist |-> dists[3]]>>>>

\* the lists of up to n lengths
LengthLists(n) == UNION {[1 .. m -> ThreadLengths] : m \in 0 .. n}

RenderingSequences ==
    {RenderingSequence(r, a, c) :
        <<r, a, c>> \in {q \in LengthLists(MaxThreads) \X LengthLists(MaxThreads)
                                  \X LengthLists(MaxThreads) :
                             Len(q[1]) + Len(q[2]) + Len(q[3]) <= MaxThreads}}
    \cup {EarlierSequence(d) : d \in [1 .. 3 -> ThreadLengths]}

\* the web has been generated: weaveWeb is about to call weaveLines for the
\* first group; bridge holds one of the sides of the triangle (941-947)
RenderInit ==
    /\ SeedWeb(RepeatedConfig)
    /\ pc = "weave"
    /\ previous = NoWeb
    /\ NoCall
    /\ Opened
    /\ currentLines = << >>
    /\ spins = << >>
    /\ oscillators = << >>
    /\ bridgeLength \in {Length(Bridge), Length(AnchorA), Length(AnchorB)}
    /\ toWeave \in RenderingSequences

\* await weaveLines(group), for the next group
WeaveLines ==
    /\ pc = "weave"
    /\ toWeave # << >>
    /\ AllDone(spins)
    /\ currentLines' = Head(toWeave)
    /\ toWeave' = Tail(toWeave)
    /\ oscillators' = SoundPassiveEach(oscillators, Head(toWeave))
    /\ spins' = [k \in 1 .. Len(Head(toWeave)) |-> LineStep(SpinStart(Head(toWeave)[k]))]
    /\ woven' = woven \o [k \in 1 .. Len(Head(toWeave)) |-> Head(toWeave)[k].kind]
    /\ UNCHANGED <<paramVars, geomVars, previous, placementVars, auxVars, randomCalls, capVars,
                   uiVars, bridgeLength>>

\* an animation frame: the lineStep of every line that requested one
AnimationFrame ==
    /\ \E k \in 1 .. Len(spins) : spins[k].frame
    /\ spins' = [k \in 1 .. Len(spins) |->
                    IF spins[k].frame THEN LineStep(spins[k]) ELSE spins[k]]
    /\ UNCHANGED <<paramVars, geomVars, weaveVars, placementVars, auxVars, randomCalls,
                   capVars, uiVars, toWeave, currentLines, oscillators, bridgeLength>>

\* the single note of a short line has sounded
NoteEnds ==
    /\ \E o \in 1 .. Len(oscillators) : \E id \in oscillators[o].notes :
          oscillators' = [oscillators EXCEPT ![o].notes = @ \ {id}]
    /\ UNCHANGED <<paramVars, geomVars, weaveVars, placementVars, auxVars, randomCalls,
                   capVars, uiVars, toWeave, currentLines, spins, bridgeLength>>

\* the last call of weaveLines has returned: Tone.Transport.stop() and
\* setPlaying(false)
WeaveEnd ==
    /\ pc = "weave"
    /\ toWeave = << >>
    /\ AllDone(spins)
    /\ pc' = "finished"
    /\ playing' = FALSE
    /\ UNCHANGED <<paramVars, geomVars, weaveVars, spokes, placementLocals, auxVars,
                   randomCalls, capVars, display, hover, spinVars>>

RenderNext ==
    \/ WeaveLines
    \/ AnimationFrame
    \/ NoteEnds
    \/ WeaveEnd

\* every animation frame requested is delivered, and weaveWeb goes on when the
\* promise it awaits has resolved
RenderSpec ==
    /\ RenderInit
    /\ [][RenderNext]_vars
    /\ WF_vars(AnimationFrame)
    /\ WF_vars(WeaveLines)
    /\ WF_vars(WeaveEnd)

-----------------------------------------------------------------------------
\* Properties of spoke placement

\* the clockwise gap, in degrees, from the angle a to the angle b
CircularGap(a, b) == (((b - a) % 360) + 360) % 360

\* the element that follows position k of arr on the circle, k counted from 1
Succ(arr, k) == arr[(k % Len(arr)) + 1]

\* the element that precedes position k of arr on the circle
Pred(arr, k) == arr[((k + Len(arr) - 2) % Len(arr)) + 1]

\* the position of the spoke inserted last (ids are given in insertion order)
Latest == CHOOSE k \in 1 .. Len(spokes) : spokes[k].id = Len(spokes)

\* C1: when the placement loop has exited, every circular gap between
\* adjacent spokes, the closing gap from the last spoke to the first
\* included, is at most maxRadiusAngle.
C1_MaxGapAfterPlacement ==
    ~hasSpace =>
        \A k \in 1 .. Len(spokes) :
            CircularGap(spokes[k].angle, Succ(spokes, k).angle) <= maxRadiusAngle

\* the loop has exited after splitting gaps, the closing gap among them
C1_Witness ==
    /\ pc = "place"
    /\ ~hasSpace
    /\ Len(spokes) >= 6
    /\ spokes[1].id > 3

\* C2: every inserted spoke lies, at the moment of insertion, at least
\* (gap * minRadiusAngleFactor) degrees from the spoke before it and from the
\* spoke after it, gap being the angular difference of those two spokes.
C2_ClearanceAtInsertion ==
    (Len(spokes) > 3 /\ pc \in {"place", "resample", "splice"}) =>
        LET curr == Pred(spokes, Latest).angle
            new == spokes[Latest].angle
            next == Succ(spokes, Latest).angle
            gap == CircularGap(curr, next)
        IN  /\ CircularGap(curr, new) * minRadiusAngleFactor.den >= gap * minRadiusAngleFactor.num
            /\ CircularGap(new, next) * minRadiusAngleFactor.den >= gap * minRadiusAngleFactor.num

\* C3: after every insertion, the wraparound insertion at (i + 1) mod length
\* included, the list read cyclically from its smallest angle never decreases.
C3_CircularlySorted ==
    \E r \in 1 .. Len(spokes) :
        \A k \in 1 .. (Len(spokes) - 1) :
            spokes[((r + k - 2) % Len(spokes)) + 1].angle
                <= spokes[((r + k - 1) % Len(spokes)) + 1].angle

\* a spoke was inserted through the wraparound, in front of the list
C3_Witness ==
    /\ pc = "place"
    /\ examined = 0
    /\ Len(spokes) > 3
    /\ Latest = 1

C5_PlacementExhausted ==
    (attempts >= MaxAttempts /\ 2 * minRadiusAngleFactor.num > minRadiusAngleFactor.den) =>
        pc = "exhausted"

\* C6: with maxGapDegrees = 360 no spoke is inserted: the list keeps the three
\* seed spokes and the loop ends after examining each of the three pairs once.
C6_ThreeSeedsOnly ==
    maxRadiusAngle = 360 =>
        /\ Len(spokes) = 3
        /\ radii = << >>
        /\ pc \notin {"resample", "splice"}
        /\ examined = i
        /\ i <= 3
        /\ (~hasSpace => i = 3)

\* the placement loop has ended under maxGapDegrees = 360
C6_Witness ==
    /\ maxRadiusAngle = 360
    /\ ~hasSpace
    /\ i = 3

\* the ray of the candidate angle, and the borders that pass its sign test
CandidateRay == UnitRadiusLine(JsMod(newAngle + 360, 360))

Passing == {j \in 0 .. 5 : SignTest(CandidateRay, j, roundoff)}

\* C7: among the six borders whose intersection with the ray passes the sign
\* test, the border chosen is one at the smallest distance from the hub, and
\* the new spoke ends at the intersection with it.
C7_NearestPassingBorder ==
    /\ (pc = "splice" /\ Passing # {}) =>
          /\ border \in Passing
          /\ minDist = NextDist(CandidateRay, border)
          /\ \A j \in Passing : NextDist(CandidateRay, border) <= NextDist(CandidateRay, j)
    /\ (pc = "place" /\ examined = 0 /\ Len(spokes) > 3 /\ minDist # NoDist) =>
          /\ spokes[Latest].end = Intersect(UnitRadiusLine(spokes[Latest].angle),
                                            BorderThreads[border + 1])
          /\ spokes[Latest].length = minDist

\* three borders or more pass the test and the one chosen is not the first of them
C7_Witness ==
    /\ pc = "splice"
    /\ Cardinality(Passing) >= 3
    /\ \E j \in Passing : j < border

\* C8: no spoke is created from a border that its ray does not hit: every
\* spoke of the list ends in the direction of its own angle (a run in which
\* no border passes the sign test fails instead of creating a spoke).
C8_SpokesEndOnHitBorder ==
    \A k \in 1 .. Len(spokes) : GetAngle(spokes[k].end, Middle) = spokes[k].angle

-----------------------------------------------------------------------------
\* Properties of the auxiliary spiral

\* C9: the auxiliary spiral ends after finitely many steps: it never lays
\* more segments than ringCount * spokeCount (one step lays one segment).
C9_AuxStepsBounded ==
    /\ Len(auxiliarySpiral) < auxRings * Len(spokes)
    /\ (pc = "auxloop" /\ pointOnSpiral < SpokeLength(auxI)) =>
          Len(auxiliarySpiral) + 1 < auxRings * Len(spokes)

\* the spiral has ended after more than one turn around the hub
C9_Witness ==
    /\ pc = "capture"
    /\ auxRings >= 2
    /\ Len(auxiliarySpiral) > Len(spokes)

\* the cumulative distance after the first k segments of the spiral
DistanceAfter(k) ==
    (shortestSpokeLength * AuxUnits) \div auxRings
        + k * ((shortestSpokeLength * AuxUnits) \div (auxRings * Len(spokes)))

\* C10: the cumulative distance grows by one fixed positive increment per
\* step, so two visits of the spiral to one spoke are at strictly growing
\* cumulative distances.
C10_FixedIncrement ==
    pc \in {"auxloop", "capture"} =>
        /\ pointOnSpiral = DistanceAfter(Len(auxiliarySpiral))
        /\ \A k \in 1 .. Len(auxiliarySpiral) : DistanceAfter(k - 1) < DistanceAfter(k)
        /\ \A k, l \in 1 .. Len(auxiliarySpiral) :
              (k < l /\ auxiliarySpiral[k].end.spoke = auxiliarySpiral[l].end.spoke) =>
                  DistanceAfter(k) < DistanceAfter(l)

\* the spiral has come back to a spoke it had visited
C10_Witness ==
    /\ pc = "capture"
    /\ \E k, l \in 1 .. Len(auxiliarySpiral) :
          k < l /\ auxiliarySpiral[k].end.spoke = auxiliarySpiral[l].end.spoke

\* the auxiliary spiral has stopped
AuxStopped == pc \notin {"place", "resample", "splice", "auxloop"}

\* the auxiliary spiral has started
AuxStarted == pc \notin {"place", "resample", "splice"}

\* the points the spiral has recorded, in the order of recording: the point
\* it starts on, then the end of every segment
Recorded ==
    IF auxiliarySpiral = << >> THEN <<prevPoint>>
    ELSE <<auxiliarySpiral[1].start>>
            \o [k \in 1 .. Len(auxiliarySpiral) |-> auxiliarySpiral[k].end]

\* the distances recorded on one spoke, in the order of recording
RecordedOn(id) ==
    LET OnSpoke(p) == p.spoke = id
        points == SelectSeq(Recorded, OnSpoke)
    IN  [k \in 1 .. Len(points) |-> points[k].at]

Reverse(seq) == [k \in 1 .. Len(seq) |-> seq[Len(seq) + 1 - k]]

\* C11: when the auxiliary spiral has stopped, the terminal spoke is the
\* first spoke on which the cumulative distance reached the spoke's length,
\* it is the last spoke visited, and spokes[terminalSpokeIndex] is that spoke.
C11_TerminalSpoke ==
    AuxStopped =>
        /\ spokes[terminalSpokeIndex + 1].id = terminalSpoke
        /\ Recorded[Len(Recorded)].spoke = terminalSpoke
        /\ DistanceAfter(Len(auxiliarySpiral)) >= SpokeById(terminalSpoke).length * AuxUnits
        /\ \A k \in 1 .. Len(auxiliarySpiral) :
              DistanceAfter(k - 1) < SpokeById(Recorded[k].spoke).length * AuxUnits

\* the spiral has stopped after more than one turn, on another spoke than it started on
C11_Witness ==
    /\ pc = "capture"
    /\ terminalSpokeIndex # startSpokeIndex
    /\ Len(auxiliarySpiral) > Len(spokes)

\* C12 as stated: every spoke's auxPoints lists the points recorded on it in
\* the order of recording, a later point at a higher index.
C12_AppendedInOrder ==
    AuxStarted =>
        \A k \in 1 .. Len(spokes) : spokes[k].auxPoints = RecordedOn(spokes[k].id)

\* C12: every point recorded is put in front of its spoke's auxPoints, so the
\* list holds the points of the spoke in reverse order of recording: a later
\* point sits at a lower index, the latest at index 0.
C12_PrependedInReverse ==
    AuxStarted =>
        \A k \in 1 .. Len(spokes) : spokes[k].auxPoints = Reverse(RecordedOn(spokes[k].id))

\* the spiral has crossed some spoke at two different distances
C12_Witness ==
    /\ pc = "capture"
    /\ \E k \in 1 .. Len(spokes) :
          /\ Len(spokes[k].auxPoints) >= 2
          /\ spokes[k].auxPoints[1] # spokes[k].auxPoints[2]

\* C13: every point of a spoke's auxPoints is at a distance from the hub
\* that is more than 0 and at most the length of the spoke.
C13_AuxPointsOnSpoke ==
    \A k \in 1 .. Len(spokes) :
        \A j \in 1 .. Len(spokes[k].auxPoints) :
            /\ spokes[k].auxPoints[j] > 0
            /\ spokes[k].auxPoints[j] <= spokes[k].length * AuxUnits

\* the last point of the spiral was jittered beyond the end of its spoke and clamped
C13_Witness ==
    /\ pc = "capture"
    /\ Len(auxiliarySpiral) >= 1
    /\ pointOnSpiral > SpokeLength(terminalSpokeIndex)
    /\ spokes[terminalSpokeIndex + 1].auxPoints[1] = SpokeLength(terminalSpokeIndex)

-----------------------------------------------------------------------------
\* Properties of the capture spiral

\* old is a block of new: new holds every element of old, in the same order,
\* with new elements before or after them only
IsBlockOf(old, new) ==
    \E d \in 0 .. (Len(new) - Len(old)) :
        \A j \in 1 .. Len(old) : new[j + d] = old[j]

\* C14: the auxPoints and the capPoints of every spoke only grow: no step
\* removes or replaces an element that is in one of the lists.
C14_PointListsOnlyGrow ==
    [][\A k \in 1 .. Len(spokes) :
          \E l \in 1 .. Len(spokes') :
              /\ spokes'[l].id = spokes[k].id
              /\ IsBlockOf(spokes[k].auxPoints, spokes'[l].auxPoints)
              /\ IsBlockOf(spokes[k].capPoints, spokes'[l].capPoints)]_vars

\* the tracers have ended, the queue of ring ends is used up and the lists are there
C14_Witness ==
    /\ pc = "done"
    /\ ringEnds = << >>
    /\ \E k \in 1 .. Len(spokes) :
          Len(spokes[k].auxPoints) >= 2 /\ Len(spokes[k].capPoints) >= 4

\* C15: the capture spiral holds no segment of length zero: a segment whose
\* two ends coincide is not added.
C15_NoZeroLengthSegment ==
    \A k \in 1 .. Len(captureSpiral) :
        ~SamePoint(captureSpiral[k].start, captureSpiral[k].end)

\* the first point of a lane fell on the ring end the lane started from (the
\* terminal spoke holds the point twice) and no segment leads to it
C15_Witness ==
    /\ pc = "walk"
    /\ capI = 1
    /\ LET points == SpokeById(terminalSpoke).capPoints
       IN  /\ Len(points) >= 2
           /\ points[Len(points)] = prevCapPoint
           /\ \E j \in 1 .. (Len(points) - 1) : points[j] = prevCapPoint
    /\ captureSpiral # << >>
    /\ captureSpiral[Len(captureSpiral)].end # prevCapPoint

C17_OppositeDirection ==
    /\ AuxStarted =>
          (auxIndex = startSpokeIndex
                         + (IF auxDir THEN Len(auxiliarySpiral) ELSE 0 - Len(auxiliarySpiral)))
    /\ pc = "walk" =>
          /\ spokeCounter = terminalSpokeIndex + (IF auxDir THEN 0 - capI ELSE capI)
          /\ (capI >= 1 =>
                currSpoke = spokes[((terminalSpokeIndex
                                       + (IF auxDir THEN Len(spokes) - 1 ELSE 1) * (capI - 1))
                                      % Len(spokes)) + 1].id)

\* the walk has gone down past index 0 after a spiral that went up
C17_Witness ==
    /\ pc = "walk"
    /\ auxDir
    /\ Len(auxiliarySpiral) >= 2
    /\ capI >= 2
    /\ spokeCounter < 0

\* the terminal spoke has a zone at the ring
TerminalHasZone(ring) == ring < Len(SpokeById(terminalSpoke).auxPoints) - 1

\* C18: a ring is processed only while the terminal spoke has a zone at it,
\* and the tracer stops once the terminal spoke has none: the test of the
\* ring loop, made on the spoke visited last, decides as the terminal spoke
\* would.
C18_StopsWithTerminalSpoke ==
    /\ (pc = "ring" => (HasZone(currSpoke, currRing) <=> TerminalHasZone(currRing)))
    /\ (pc \in {"lane", "walk"} => TerminalHasZone(currRing))
    /\ (pc = "done" => ~TerminalHasZone(currRing))

\* the ring test is made on another spoke than the terminal one
C18_Witness ==
    /\ pc = "ring"
    /\ currRing >= 1
    /\ currSpoke # terminalSpoke

\* C19: the chain of segments breaks at the seam: after the first step of a
\* lane's circuit at a ring beyond the first, no segment leads to the
\* circuit's first point (it would start at the seam point of the circuit
\* before).
C19_ChainBreaksAtSeam ==
    (pc = "walk" /\ capI = 1 /\ currRing >= 1 /\ captureSpiral # << >>) =>
        captureSpiral[Len(captureSpiral)].end # prevCapPoint

\* the j-th ring end the tracer starts with, j counted from 0
InitialRingEnd(j) ==
    LET terminal == SpokeById(terminalSpoke)
    IN  PointAt(terminal, StartRingEnd(j, terminal.auxPoints[1], terminal.auxPoints[2]))

\* the point lane j laid at the seam of a ring: every lane that came to the
\* seam has put two points on the terminal spoke, the second at the seam
SeamPoint(ring, j) ==
    SpokeById(terminalSpoke).capPoints[2 * (ring * capCapacity + j) + 2]

C28_BoundsExist ==
    (pc = "walk" /\ InWalk /\ ~NoZone) =>
        /\ (IF AtSeam THEN currRing + 1 ELSE currRing) < Len(WalkSpoke.auxPoints)
        /\ (IF AtSeam THEN currRing + 2 ELSE currRing + 1) < Len(WalkSpoke.auxPoints)

\* C29: when the auxiliary spiral has stopped, the terminal spoke holds at
\* least two auxPoints, for every number of rings from 1 on.
C29_TerminalHasTwoPoints ==
    pc = "capture" => Len(SpokeById(terminalSpoke).auxPoints) >= 2

\* C30: in every zone the capture walk divides the outer bound is farther
\* from the hub than the inner bound, and the capture point laid in the zone
\* lies strictly between the two.
C30_ZoneIsPositive ==
    /\ (pc = "capture" /\ Len(SpokeById(terminalSpoke).auxPoints) >= 2) =>
          SpokeById(terminalSpoke).auxPoints[1] > SpokeById(terminalSpoke).auxPoints[2]
    /\ (pc = "walk" /\ InWalk /\ ~NoZone /\ OutBound # NoPoint /\ InBound # NoPoint) =>
          OutBound.at > InBound.at

-----------------------------------------------------------------------------
\* Properties of a whole weave

\* C26: no thread is handed to weaveLines unless spoke placement, the
\* auxiliary spiral and the capture spiral have all run to their end; a run
\* in which an error was raised weaves nothing.
C26_NothingWovenBeforeGenerated ==
    /\ pc = "thrown" => woven = << >>
    /\ woven # << >> =>
          /\ ~hasSpace
          /\ auxI # NoIndex
          /\ pointOnSpiral >= SpokeLength(auxI)
          /\ currSpoke # 0
          /\ ~HasZone(currSpoke, currRing)
          /\ Len(woven) >= Len(FrameThreads)

\* an error was raised at a seam, after capture segments had been generated
C26_Witness ==
    /\ pc = "thrown"
    /\ captureSpiral # << >>
    /\ woven = << >>

\* C25: a weave is determined by its inputs: a second weave in the same
\* window with the same parameters generates the same spokes, the same
\* auxiliary segments and the same capture segments as the first.
C25_SameInputsSameWeb ==
    (pc = "finished" /\ previous # NoWeb) => Web = previous

-----------------------------------------------------------------------------
\* Properties of the methods of Line

\* C21: for every line that is not degenerate and every t in [0, 1],
\* line.contains(line.pointAt(t)) is true, the two end points included.
C21_ContainsPointAt ==
    called = "pointAt" => Line_contains(thisLine, result, FALSE)

\* C22: for every line that is not degenerate and every t in [0, 1],
\* line.lineValueAt(line.pointAt(t)) is a number, never null.
C22_LineValueAtPointAt ==
    called = "pointAt" => Line_lineValueAt(thisLine, result).num # Null

\* C23: the point where two lines that are not parallel intersect is
\* contained in both when extendedLine is true, also where it lies outside
\* the segment of one of them.
C23_IntersectionOnBothLines ==
    (called = "intersect" /\ result.d # 0) =>
        /\ Line_contains(thisLine, result, TRUE)
        /\ Line_contains(otherLine, result, TRUE)

\* C24: intersect never returns a Vector with an infinite or NaN coordinate
\* (the quotient by a denominator of zero): for parallel or coincident lines
\* it returns something else.
C24_NoDivisionByZero ==
    called = "intersect" => result.d # 0

-----------------------------------------------------------------------------
\* Properties of spoke placement with a fair sampler

\* the parameters of the claim: minRadiusAngleFactor < 0.5, maxRadiusAngle > 0
C27_Parameters ==
    2 * minRadiusAngleFactor.num < minRadiusAngleFactor.den /\ maxRadiusAngle > 0

\* the walk reaches the closing pair and the loop ends
C27_Terminates == C27_Parameters => <>(pc = "place" /\ ~hasSpace)

\* the two gaps an insertion leaves in place of the gap g = angleDifference
\* are each at most (1 - minRadiusAngleFactor) * g
C27_GapsShrink ==
    [][InsertRadius =>
        LET inserted == spokes'[CHOOSE k \in 1 .. Len(spokes') : spokes'[k].id = Len(spokes')]
            before == JsMod(inserted.angle - CurrRadius.angle + 360, 360)
            after == JsMod(NextRadius.angle - inserted.angle + 360, 360)
            f == minRadiusAngleFactor
        IN  C27_Parameters =>
                /\ before * f.den <= (f.den - f.num) * angleDifference
                /\ after * f.den <= (f.den - f.num) * angleDifference]_vars

\* C27: for minRadiusAngleFactor < 0.5 and maxRadiusAngle > 0, and a sampler
\* that eventually returns an admissible angle, spoke placement terminates:
\* every insertion replaces the gap g by two gaps of at most
\* (1 - minRadiusAngleFactor) * g each, and the walk reaches the closing pair.
C27_PlacementTerminates == C27_GapsShrink /\ C27_Terminates

-----------------------------------------------------------------------------
\* Properties of the buttons

\* a run of weaveWeb has neither reached its end nor thrown
WeaveInProgress == pc \notin {"finished", "thrown"}

\* C34: at most one run of weaveWeb is in progress: openCanvas fires only when
\* playing and display are false and no run is in progress, display is reset
\* to false only when playing is false, and playing implies display.
C34_OneWeaveAtATime ==
    /\ [][WeaveAgain => (~WeaveInProgress /\ ~playing /\ ~display)]_vars
    /\ [][(display /\ ~display') => ~playing]_vars
    /\ [](playing => display)

\* the second weave is in progress: the canvas was clicked and reset, and the
\* weave button pressed again
C34_Witness == previous # NoWeb /\ playing /\ display /\ pc = "weaveRadii"

-----------------------------------------------------------------------------
\* Properties of the spinning of the threads

IsPrefix(a, b) == Len(a) <= Len(b) /\ a = SubSeq(b, 1, Len(a))

\* the values of t a line of length dist is drawn at: the multiples of speed
\* below dist, then dist
StepsOf(dist) ==
    LET multiples == (dist - 1) \div Speed + 1
    IN  [j \in 1 .. multiples + 1 |-> IF j <= multiples THEN (j - 1) * Speed ELSE dist]

\* the steps drawn so far are the first of StepsOf; the promise is resolved at
\* most once, only when every step was drawn, and a frame is requested until
\* then and never after
SpinInOrder(s) ==
    /\ IsPrefix(s.steps, StepsOf(s.dist))
    /\ s.resolved <= 1
    /\ s.resolved = 1 => (s.steps = StepsOf(s.dist) /\ ~s.frame)
    /\ s.resolved = 0 => s.frame

\* the frame after the step at t = dist resolves the promise
ResolvedOnNextFrame ==
    [][\A k \in 1 .. Len(spins) :
          (/\ currentLines' = currentLines
           /\ spins'[k] # spins[k]
           /\ spins[k].steps = StepsOf(spins[k].dist)) => spins'[k].resolved = 1]_vars

\* C31: spinLine for a line of length dist > 0 draws at t = 0, speed,
\* 2 x speed, ... while t + speed < dist, then once at t = dist, and resolves
\* its promise on the following frame: exactly once, after finitely many
\* frames, and never before the end point was drawn.
C31_SpinLineSteps ==
    /\ [](\A k \in 1 .. Len(spins) : spins[k].dist > 0 => SpinInOrder(spins[k]))
    /\ ResolvedOnNextFrame
    /\ \A k \in 1 .. 2 :
          (k <= Len(spins) /\ spins[k].resolved = 0)
              ~> (k <= Len(spins) /\ spins[k].resolved = 1)   \* a group has one or two lines

\* a line whose length is no multiple of speed was drawn in three steps or
\* more and its promise has resolved
C31_Witness ==
    \E k \in 1 .. Len(spins) :
        /\ spins[k].resolved = 1
        /\ Len(spins[k].steps) >= 3
        /\ spins[k].dist % Speed # 0
        /\ spins[k].steps[Len(spins[k].steps)] = spins[k].dist

\* the list a thread of this kind is woven with: the radii come after the
\* nine threads of the frame, then the auxiliary spiral, then the capture spiral
Rank(kind) ==
    IF kind = "radius" THEN Len(FrameThreads) + 1
    ELSE IF kind = "auxiliary" THEN Len(FrameThreads) + 2
    ELSE IF kind = "capture" THEN Len(FrameThreads) + 3
    ELSE CHOOSE k \in 1 .. Len(FrameThreads) : FrameThreads[k] = kind

\* bridge, branch A, branch B, branch C, anchor A, anchor B, frame A, frame B,
\* frame C, then radii, then auxiliary segments, then capture segments
InRenderingOrder(kinds) ==
    /\ IsPrefix(SubSeq(kinds, 1, IF Len(kinds) < Len(FrameThreads) THEN Len(kinds)
                                  ELSE Len(FrameThreads)), FrameThreads)
    /\ \A a, b \in 1 .. Len(kinds) : a < b => Rank(kinds[a]) <= Rank(kinds[b])

\* C32: weaveWeb renders the groups one after another in the order bridge,
\* branches, anchors, frame threads, radii, auxiliary segments, capture
\* segments; a group is started, and weaveWeb ends, only when every promise
\* of the group before has resolved.
C32_GroupsInOrder ==
    /\ [](InRenderingOrder(woven))
    /\ [](pc = "finished" => toWeave = << >>)
    /\ [][(woven' # woven \/ pc' # pc) =>
             \A k \in 1 .. Len(spins) : spins[k].resolved = 1]_vars

\* a weave of all four lists has ended
C32_Witness ==
    pc = "finished" /\ woven = FrameThreads \o <<"radius", "auxiliary", "capture">>

\* of two lines spun at once one has resolved and the other has not
C32_OneOfTwoResolved ==
    Len(spins) = 2 /\ spins[1].resolved = 1 /\ spins[2].resolved = 0

-----------------------------------------------------------------------------
\* Properties of the OscStates

\* the lines whose sound uses the OscState
SoundsOn(osc) == osc.repeats \cup osc.notes

\* an OscState with a repeat scheduled on it is busy
C35_BusyWhileRepeating ==
    \A o \in 1 .. Len(oscillators) : oscillators[o].repeats # {} => oscillators[o].busy

\* C35: an OscState handed out by getFreeOsc is busy until its user releases
\* it, so that no OscState carries the sound of a second line while a single
\* note or a scheduled repeat of an earlier line still uses it.
C35_OscStateNotShared ==
    /\ C35_BusyWhileRepeating
    /\ \A o \in 1 .. Len(oscillators) : Cardinality(SoundsOn(oscillators[o])) <= 1

\* the sounds of lines on one OscState are at most one repeat, or notes only
C35_NoSecondLineOnRepeat ==
    \A o \in 1 .. Len(oscillators) :
        oscillators[o].repeats # {} => Cardinality(SoundsOn(oscillators[o])) <= 1

-----------------------------------------------------------------------------
\* Properties of the circular index

\* the index that lies steps places further round a list of n, in the
\* direction forward or against it
StepsRound(from, steps, n, forward) == (from + (IF forward THEN steps ELSE (n - 1) * steps)) % n

\* the walk of the auxiliary spiral has made as many steps as it has laid
\* segments; it stands on a spoke of the list, that many places from its start
AuxWalkOnCircle ==
    auxI # NoIndex =>
        /\ auxI \in 0 .. Len(spokes) - 1
        /\ auxI = CircularIndex(auxIndex, Len(spokes))
        /\ auxI = StepsRound(startSpokeIndex, Len(auxiliarySpiral), Len(spokes), auxDir)

\* the walk of a lane has made capI steps against the direction of the
\* auxiliary spiral; after as many steps as there are spokes it is back on the
\* terminal spoke
CaptureWalkOnCircle ==
    pc = "walk" =>
        /\ SpokeI \in 0 .. Len(spokes) - 1
        /\ SpokeI = StepsRound(terminalSpokeIndex, capI, Len(spokes), ~auxDir)
        /\ capI = Len(spokes) => SpokeI = terminalSpokeIndex
        /\ {CircularIndex(spokeCounter + k, Len(spokes)) : k \in 0 .. Len(spokes) - 1}
               = 0 .. Len(spokes) - 1

\* C36: for every value of the counters auxIndex and spokeCounter, the
\* negative ones included, the index ((c mod N) + N) mod N lies in 0..N-1 and
\* a step of a walk leads to the circularly adjacent spoke, so that N steps
\* visit every spoke once and lead back to the spoke the walk started from.
C36_CircularIndex ==
    /\ [](AuxWalkOnCircle /\ CaptureWalkOnCircle)
    /\ [][(auxI # NoIndex /\ auxI' # NoIndex /\ auxIndex' # auxIndex) =>
             auxI' = StepsRound(auxI, 1, Len(spokes), auxDir)]_vars
    /\ [][(pc = "walk" /\ pc' = "walk" /\ spokeCounter' # spokeCounter /\ capI' # 0) =>
             SpokeI' = StepsRound(SpokeI, 1, Len(spokes), ~auxDir)]_vars

\* a lane has gone once round with a counter below zero, after an auxiliary
\* spiral of more than one turn
C36_Witness ==
    /\ pc = "walk"
    /\ capI = Len(spokes)
    /\ spokeCounter < 0
    /\ auxIndex > 2 * Len(spokes)

\* the auxiliary spiral has gone more than one turn with a counter below zero
C36_NegativeAuxIndex == auxI # NoIndex /\ auxIndex < 0 - Len(spokes)

(***************************************************************************)
(* Properties of the end of a weave                                        *)
(***************************************************************************)
\* C33: every weave that openCanvas starts eventually finishes: after
\* playing is set to true, weaveWeb reaches setPlaying(false) for every
\* outcome of the random choices of the generation; playing is never left
\* true forever.
C33_WeaveFinishes == playing ~> ~playing

\* a weave whose generation has thrown: weaveWeb has rejected before
\* setPlaying(false), playing stays true
C33_ThrownWhilePlaying == pc = "thrown" /\ playing

\* the weaves that do not finish are the weaves whose generation throws
C33_FinishesOrThrows == playing ~> (~playing \/ pc = "thrown")

\* once the generation has thrown, playing is true for ever
C33_ThrownForEver == [][C33_ThrownWhilePlaying => C33_ThrownWhilePlaying']_vars

====
